---------------------------- MODULE Spec2Model ----------------------------
(***************************************************************************)
(* The SD-card ELF boot loaders of the ZCU102 board support code:          *)
(*   src/rpu_bootloader_sd.c  load_elf32 (Cortex-R5, branches to e_entry)  *)
(*   src/apu_bootloader_sd.c  load_elf64 (Cortex-A53, returns e_entry)     *)
(* The two loaders are the same routine at two field widths; variant       *)
(* selects the width.  FatFs (f_mount, f_open, f_read, f_lseek, f_size,    *)
(* f_close), malloc and Xil_DCacheFlushRange are the environment: a read   *)
(* delivers at most the bytes left in the file, may deliver fewer, and may *)
(* fail.  Integer widths are scaled: Mod32 stands for 2^32 and Mod64 for   *)
(* 2^64, CHUNK_SIZE for the 4096-byte scratch buffer.                      *)
(***************************************************************************)
EXTENDS Integers, Sequences, FiniteSets

(* ------------------------------ bounds -------------------------------- *)
\* uint32_t arithmetic is modulo Mod32 (2^32 in the build).
Mod32 == 256
\* uint64_t arithmetic is modulo Mod64 (2^64 in the build).
Mod64 == 512
\* #define CHUNK_SIZE 4096, scaled so that a segment spans several chunks.
CHUNK_SIZE == 2
\* f_size(&file) of every image on the card.
FileSize == 184

(* ------------------------- widths and layouts ------------------------- *)
Variants == {"elf32", "elf64"}

\* Width of the Elf32_/Elf64_ Off, Addr and Xword fields of the variant.
FieldMod(v) == IF v = "elf32" THEN Mod32 ELSE Mod64

\* sizeof(Elf32_Ehdr) = 52, sizeof(Elf64_Ehdr) = 64.
EhdrSize(v) == IF v = "elf32" THEN 52 ELSE 64

\* sizeof(Elf32_Phdr) = 32, sizeof(Elf64_Phdr) = 56.
PhdrSize(v) == IF v = "elf32" THEN 32 ELSE 56

\* ELFMAG0..ELFMAG3: 0x7f 'E' 'L' 'F'.
ELFMAG == <<127, 69, 76, 70>>

\* return -1 from a uint8_t (load_elf32) or uint64_t (load_elf64) function.
FailValue(v) == IF v = "elf32" THEN 255 ELSE Mod64 - 1

Min(a, b) == IF a < b THEN a ELSE b
Max(a, b) == IF a < b THEN b ELSE a

(* ----------------------------- the card -------------------------------- *)
\* Byte k of the image file (0-based).  Every position holds a different,
\* nonzero value below PreFill, so a misplaced or stale byte is visible.
FileByte(k) == k + 1

\* What physical memory holds before the loader runs (0xFF).
PreFill == 255

\* A scratch-buffer byte no read has delivered yet.
Uninit == -1

\* e_ident[0..3] as found on the card: the signature, or the signature with
\* one byte altered.
Idents == {ELFMAG} \cup {[ELFMAG EXCEPT ![k] = 0] : k \in 1..4}

\* e_phoff: right after the header, leaving room for one entry only, and at
\* the end of the file.
Phoffs(v) == {EhdrSize(v), FileSize - PhdrSize(v), FileSize}

\* e_phnum.  The whole boot is followed on one-entry tables only.
Phnums(m) == IF m = "unit" THEN {0, 1, 2} ELSE {1}

\* e_entry.
Entries(v) == IF v = "elf32" THEN {9} ELSE {9, Mod32 + 9}

PT_LOAD == "PT_LOAD"
PT_NOTE == "PT_NOTE"

\* Where segment data sits in the file: the last CHUNK_SIZE + 3 bytes.
DataOff == FileSize - (CHUNK_SIZE + 3)

\* Program-header entries as found on the card.  The largest field values
\* make p_offset + p_filesz wrap in the field's width.  The whole boot is
\* followed on LOAD entries of one size only.
Phdrs(v, m) ==
  IF m = "unit"
    THEN [ type   : {PT_LOAD, PT_NOTE},
           offset : {DataOff, FieldMod(v) - 1},
           filesz : {0, CHUNK_SIZE + 1, FieldMod(v) - 1},
           vaddr  : IF v = "elf32" THEN {1, 9} ELSE {1, Mod32 + 1},
           memsz  : {0, CHUNK_SIZE + 3} ]
    ELSE [ type   : {PT_LOAD},
           offset : {DataOff, FieldMod(v) - 1},
           filesz : {CHUNK_SIZE + 1},
           vaddr  : {1, Mod32 + 1},
           memsz  : {CHUNK_SIZE + 3} ]

\* The byte counts a read of n available bytes may deliver: none, one, or
\* all of them.
Deliveries(n) == {k \in 0..n : k <= 1 \/ k = n}

(* ------------------------------ state ---------------------------------- *)
VARIABLES
  variant,        \* which loader runs: "elf32" (RPU) or "elf64" (APU)
  mode,           \* "unit": main up to the end of its first loader call, on
                  \* the wide set of images; "boot": the whole APU main, on
                  \* the narrow set
  pc,             \* position of the program
  call,           \* number of loader calls main has made
  fileOpen,       \* FIL file is open
  fptr,           \* read/write pointer of the open file
  elfHeader,      \* Elf32_Ehdr / Elf64_Ehdr elfHeader
  table,          \* programHeaders allocation: "none", "live", "freed"
  programHeaders, \* the program-header table read from the card
  i,              \* for-loop index (entries already processed)
  bytesToRead,    \* chunk loop: bytes of the segment still to read
  bytesLoaded,    \* chunk loop: bytes of the segment already copied
  buffer,         \* uint8_t buffer[CHUNK_SIZE]
  mem,            \* physical memory, the written part of it
  dirty,          \* addresses written and not flushed since
  err,            \* which return site ended the current call ("none": running)
  ret,            \* value returned by the last call
  fault,          \* the environment failed a call (mount, open, read, malloc)
                  \* of the current loader call
  log,            \* the environment calls and register writes since the
                  \* last loader call began, in order
  bl31_entrypoint,  \* main: uint32_t bl31_entrypoint
  regs,           \* the memory-mapped registers main writes
  ATFHandoffParams, \* the descriptor in mock_fsbl_SetATFHandoffParams's frame
  frameLive,      \* that frame is live (the function has not returned)
  bl31_load,      \* history: how the call that gave bl31_entrypoint ended
  handoffCall,    \* history: the arguments of the last handoff call and the
                  \* descriptor published before it
  secondaryRan,   \* a released core has fetched the descriptor
  seen            \* what it read through GLOBAL_GEN_STORAGE6

vars == <<variant, mode, pc, call, fileOpen, fptr, elfHeader, table,
          programHeaders, i, bytesToRead, bytesLoaded, buffer, mem, dirty,
          err, ret, fault, log, bl31_entrypoint, regs, ATFHandoffParams,
          frameLive, bl31_load, handoffCall, secondaryRan, seen>>

\* What main and the handoff own; the loader leaves it alone.
handoffVars == <<bl31_entrypoint, regs, ATFHandoffParams, frameLive,
                 bl31_load, handoffCall, secondaryRan, seen>>

NoHeader == [ident |-> <<0, 0, 0, 0>>, phoff |-> 0, phnum |-> 0, entry |-> 0]

\* One environment call: op its name, a an address or file offset, n a
\* length, x the bytes delivered (-1: the call failed), seg the entry (1-based)
\* being processed, 0 outside the loop.
Ev(op, a, n, x, seg) == [op |-> op, a |-> a, n |-> n, x |-> x, seg |-> seg]

MemAt(a) == IF a \in DOMAIN mem THEN mem[a] ELSE PreFill

Range(a, n) == a .. (a + n - 1)

\* memcpy / memset of the bytes bs to address a.  No image of the model
\* names a destination that runs past the end of the address space.
MemWrite(m, a, bs) ==
  [p \in DOMAIN m \cup Range(a, Len(bs)) |->
     IF p \in Range(a, Len(bs)) THEN bs[p - a + 1] ELSE m[p]]

\* #define MAX_ENTRIES 10
MAX_ENTRIES == 10
\* #define RVBARADDR_LOW_VALU 0x0U
RVBARADDR_LOW_VALU == 0
\* #define RST_FPD_APU_VALU 0xFU
RST_FPD_APU_VALU == 15
\* #define RST_FPD_APU_CLER 0x0U
RST_FPD_APU_CLER == 0

\* The registers of the handoff, by name.
RvbarLow == <<"RVBARADDR0L", "RVBARADDR1L", "RVBARADDR2L", "RVBARADDR3L">>
RvbarHigh == <<"RVBARADDR0H", "RVBARADDR1H", "RVBARADDR2H", "RVBARADDR3H">>
Registers ==
  {"GLOBAL_GEN_STORAGE6", "RST_FPD_APU"} \cup
  {RvbarLow[c] : c \in 1..4} \cup {RvbarHigh[c] : c \in 1..4}

\* ATFHandoffParamsStruct as the stack leaves it: nothing written yet.
NoDescriptor ==
  [MagicValue |-> <<Uninit, Uninit, Uninit, Uninit>>, NumEntries |-> Uninit,
   Entry |-> [k \in 0..(MAX_ENTRIES - 1) |->
                [EntryPoint |-> Uninit, PartitionFlags |-> Uninit]]]

\* (uint32_t)&ATFHandoffParams: an address in the handoff function's frame.
FrameAddr == Mod32 - 16

\* No handoff call has been made.
NoHandoffCall ==
  [EntryCount |-> Uninit, PartitionHeader |-> Uninit,
   PartitionFlags |-> Uninit, prior |-> NoDescriptor]

InitCommon ==
  /\ variant \in Variants
  /\ pc = "main"
  /\ call = 0
  /\ fileOpen = FALSE
  /\ fptr = 0
  /\ elfHeader = NoHeader
  /\ table = "none"
  /\ programHeaders = <<>>
  /\ i = 0
  /\ bytesToRead = 0
  /\ bytesLoaded = 0
  /\ buffer = [k \in 1..CHUNK_SIZE |-> Uninit]
  /\ mem = <<>>
  /\ dirty = {}
  /\ err = "none"
  /\ ret = 0
  /\ fault = FALSE
  /\ log = <<>>
  /\ bl31_entrypoint = 0
  /\ regs = [r \in Registers |-> 0]
  /\ ATFHandoffParams = NoDescriptor
  /\ frameLive = FALSE
  /\ bl31_load = [err |-> "none", ret |-> 0, entry |-> 0]
  /\ handoffCall = NoHandoffCall
  /\ secondaryRan = FALSE
  /\ seen = NoDescriptor

Init ==
  /\ InitCommon
  /\ mode \in {"unit", "boot"}
  /\ mode = "boot" => variant = "elf64"

(* --------------------------- pure helpers ------------------------------ *)
\* The identification test with the last byte left out.
MagicOK_ThreeBytes(ident) ==
  ~(ident[1] # ELFMAG[1] \/ ident[2] # ELFMAG[2] \/ ident[3] # ELFMAG[3])

\* The identification test of the header.
MagicOK(ident) ==
  ~(ident[1] # ELFMAG[1] \/ ident[2] # ELFMAG[2] \/
    ident[3] # ELFMAG[3] \/ ident[4] # ELFMAG[4])

\* The offset test with > for >=.
PhoffInvalid_Strict(phoff, fsize) == phoff > fsize

\* if (elfHeader.e_phoff >= f_size(&file))
PhoffInvalid(phoff, fsize) == phoff >= fsize

\* elfHeader.e_phnum * sizeof(ElfNN_Phdr)
TableBytes(v, phnum) == phnum * PhdrSize(v)

\* if (programHeader->p_offset + programHeader->p_filesz > f_size(&file)),
\* the sum taken in the width of the fields.
SegmentOutOfBounds(v, ph, fsize) ==
  (ph.offset + ph.filesz) % FieldMod(v) > fsize

\* The request always of a whole chunk, whatever is left of the segment.
ChunkSizeOf_WholeChunk(btr) == CHUNK_SIZE

\* if (bytesToRead > CHUNK_SIZE) chunkSize = CHUNK_SIZE; else chunkSize = bytesToRead;
ChunkSizeOf(btr) == IF btr > CHUNK_SIZE THEN CHUNK_SIZE ELSE btr

\* The table read test without the byte count.
TableReadFailed_StatusOnly(x, req) == x = -1

\* if (fr != FR_OK || bytesRead != e_phnum * sizeof(Elf_Phdr)): x is -1 when
\* fr != FR_OK.
TableReadFailed(x, req) == x = -1 \/ x # req

\* The read test without the bytesRead == 0 half.
ChunkReadFailed_StatusOnly(x) == x = -1

\* if (fr != FR_OK || bytesRead == 0): x is -1 when fr != FR_OK.
ChunkReadFailed(x) == x = -1 \/ x = 0

\* memcpy of the whole scratch buffer, whatever the read returned.
CopyBytes_WholeBuffer(buf, bytesRead) == buf

\* memcpy(segmentMemory + bytesLoaded, buffer, bytesRead): the bytes copied.
CopyBytes(buf, bytesRead) == SubSeq(buf, 1, bytesRead)

\* (uint32_t)(segmentMemory + bytesLoaded - bytesRead): the flushed address.
FlushAddr(addr) == addr % Mod32

\* The zero-fill with its comparison reversed.
ZeroFillLen_Reversed(ph) ==
  IF ph.memsz < ph.filesz THEN ph.filesz - ph.memsz ELSE 0

\* memset length: p_memsz - p_filesz when p_memsz > p_filesz.
ZeroFillLen(ph) == IF ph.memsz > ph.filesz THEN ph.memsz - ph.filesz ELSE 0

\* uint32_t entry_point = elfHeader.e_entry;
EntryPoint(entry) == entry % Mod32

\* The return sites with the free missing where the extent test fails.
CleanupAt_LeakOnBounds(site) ==
  CASE site = "StorageUnavailable" -> [free |-> FALSE, close |-> FALSE]
    [] site \in {"ShortRead", "BadMagic", "InvalidProgramHeaderOffset",
                 "AllocationFailure", "SegmentOutOfBounds"} ->
         [free |-> FALSE, close |-> TRUE]
    [] OTHER -> [free |-> TRUE, close |-> TRUE]

\* What each return site releases before it returns.
CleanupAt(site) ==
  CASE site = "StorageUnavailable" -> [free |-> FALSE, close |-> FALSE]
    [] site \in {"ShortRead", "BadMagic", "InvalidProgramHeaderOffset",
                 "AllocationFailure"} -> [free |-> FALSE, close |-> TRUE]
    [] OTHER -> [free |-> TRUE, close |-> TRUE]

\* The free / f_close calls of a return site, as log entries.
CleanupLog(site) ==
  (IF CleanupAt(site).free THEN <<Ev("free", 0, 0, 0, 0)>> ELSE <<>>) \o
  (IF CleanupAt(site).close THEN <<Ev("close", 0, 0, 0, 0)>> ELSE <<>>)

\* A return site: evs are the environment calls made on the way to it.
Return(site, evs, value, next) ==
  /\ err' = site
  /\ ret' = value
  /\ pc' = next
  /\ log' = log \o evs \o CleanupLog(site)
  /\ table' = IF CleanupAt(site).free
                THEN (IF table = "live" THEN "freed" ELSE "corrupt")
                ELSE table
  /\ fileOpen' = IF CleanupAt(site).close THEN FALSE ELSE fileOpen

Fail(site, evs) == Return(site, evs, FailValue(variant), "main")

(* ------------------------------ loader --------------------------------- *)
\* How many times main calls the loader.
Calls == IF variant = "elf64" /\ mode = "boot" THEN 2 ELSE 1

\* main: load_elf32("vxWorks.elf") / load_elf64("bl31.elf"), load_elf64("u-boot.elf").
MainCall ==
  /\ pc = "main"
  /\ call < Calls
  /\ call' = call + 1
  /\ pc' = "mount"
  /\ err' = "none"
  /\ log' = <<>>
  /\ elfHeader' = NoHeader
  /\ table' = "none"
  /\ programHeaders' = <<>>
  /\ i' = 0
  /\ bl31_entrypoint' = IF call = 1 THEN ret % Mod32 ELSE bl31_entrypoint
  /\ bl31_load' = IF call = 1
                    THEN [err |-> err, ret |-> ret, entry |-> elfHeader.entry]
                    ELSE bl31_load
  /\ fault' = FALSE
  /\ UNCHANGED <<variant, mode, fileOpen, fptr, bytesToRead, bytesLoaded,
                 buffer, mem, dirty, ret, regs, ATFHandoffParams, frameLive,
                 handoffCall, secondaryRan, seen>>

\* fr = f_mount(&fs, "0:", 0);
Mount ==
  /\ pc = "mount"
  /\ \/ /\ pc' = "open"
        /\ log' = Append(log, Ev("mount", 0, 0, 0, 0))
        /\ UNCHANGED <<err, ret, table, fileOpen, fault>>
     \/ /\ Fail("StorageUnavailable", <<Ev("mount", 0, 0, -1, 0)>>)
        /\ fault' = TRUE
  /\ UNCHANGED <<handoffVars, variant, mode, call, fptr, elfHeader, programHeaders, i,
                 bytesToRead, bytesLoaded, buffer, mem, dirty>>

\* fr = f_open(&file, file_name, FA_READ);
Open ==
  /\ pc = "open"
  /\ \/ /\ pc' = "hdr"
        /\ fileOpen' = TRUE
        /\ fptr' = 0
        /\ log' = Append(log, Ev("open", 0, 0, 0, 0))
        /\ UNCHANGED <<err, ret, table, fault>>
     \/ /\ Fail("StorageUnavailable", <<Ev("open", 0, 0, -1, 0)>>)
        /\ fault' = TRUE
        /\ UNCHANGED fptr
  /\ UNCHANGED <<handoffVars, variant, mode, call, elfHeader, programHeaders, i,
                 bytesToRead, bytesLoaded, buffer, mem, dirty>>

\* fr = f_read(&file, &elfHeader, sizeof(elfHeader), &bytesRead);
ReadHeader ==
  /\ pc = "hdr"
  /\ \/ /\ \E id \in Idents, po \in Phoffs(variant), pn \in Phnums(mode),
             en \in Entries(variant) :
             elfHeader' = [ident |-> id, phoff |-> po, phnum |-> pn, entry |-> en]
        /\ fptr' = fptr + EhdrSize(variant)
        /\ pc' = "magic"
        /\ log' = Append(log, Ev("read_hdr", fptr, EhdrSize(variant),
                                 EhdrSize(variant), 0))
        /\ UNCHANGED <<err, ret, table, fileOpen, fault>>
     \/ /\ Fail("ShortRead", <<Ev("read_hdr", fptr, EhdrSize(variant), -1, 0)>>)
        /\ fault' = TRUE
        /\ UNCHANGED <<elfHeader, fptr>>
  /\ UNCHANGED <<handoffVars, variant, mode, call, programHeaders, i, bytesToRead,
                 bytesLoaded, buffer, mem, dirty>>

\* Validate ELF identification.
CheckMagic ==
  /\ pc = "magic"
  /\ IF MagicOK(elfHeader.ident)
       THEN /\ pc' = "phoff"
            /\ UNCHANGED <<err, ret, table, fileOpen, log>>
       ELSE Fail("BadMagic", <<>>)
  /\ UNCHANGED <<handoffVars, variant, mode, call, fptr, elfHeader, programHeaders, i,
                 bytesToRead, bytesLoaded, buffer, mem, dirty, fault>>

\* Jump to the program headers: the offset test.
CheckPhoff ==
  /\ pc = "phoff"
  /\ IF PhoffInvalid(elfHeader.phoff, FileSize)
       THEN Fail("InvalidProgramHeaderOffset", <<>>)
       ELSE /\ pc' = "alloc"
            /\ UNCHANGED <<err, ret, table, fileOpen, log>>
  /\ UNCHANGED <<handoffVars, variant, mode, call, fptr, elfHeader, programHeaders, i,
                 bytesToRead, bytesLoaded, buffer, mem, dirty, fault>>

\* programHeaders = malloc(elfHeader.e_phnum * sizeof(ElfNN_Phdr));
AllocTable ==
  /\ pc = "alloc"
  /\ LET n == TableBytes(variant, elfHeader.phnum) IN
     \/ /\ pc' = "table"
        /\ table' = "live"
        /\ log' = Append(log, Ev("alloc", 0, n, n, 0))
        /\ UNCHANGED <<err, ret, fileOpen, fault>>
     \/ /\ Fail("AllocationFailure", <<Ev("alloc", 0, n, -1, 0)>>)
        /\ fault' = TRUE
  /\ UNCHANGED <<handoffVars, variant, mode, call, fptr, elfHeader, programHeaders, i,
                 bytesToRead, bytesLoaded, buffer, mem, dirty>>

\* f_lseek(&file, elfHeader.e_phoff); then the one f_read of the whole table.
ReadTable ==
  /\ pc = "table"
  /\ LET req  == TableBytes(variant, elfHeader.phnum)
         pos  == Min(elfHeader.phoff, FileSize)
         got  == Min(req, FileSize - pos)
         seek == Ev("seek", elfHeader.phoff, 0, 0, 0)
     IN
     \E x \in {got, -1} :
       LET evs == <<seek, Ev("read_tab", pos, req, x, 0)>> IN
       /\ fptr' = pos + Max(x, 0)
       /\ fault' = IF x = -1 THEN TRUE ELSE fault
       /\ IF TableReadFailed(x, req)
            THEN /\ Fail("TruncatedTable", evs)
                 /\ UNCHANGED <<programHeaders, i>>
            ELSE /\ programHeaders' \in [1..elfHeader.phnum -> Phdrs(variant, mode)]
                 /\ pc' = "seg"
                 /\ i' = 0
                 /\ log' = log \o evs
                 /\ UNCHANGED <<err, ret, table, fileOpen>>
  /\ UNCHANGED <<handoffVars, variant, mode, call, elfHeader, bytesToRead, bytesLoaded,
                 buffer, mem, dirty>>

\* Top of the for loop for entry i: the extent test, the seek, the loop setup.
SegBegin ==
  /\ pc = "seg"
  /\ i < elfHeader.phnum
  /\ LET ph == programHeaders[i + 1] IN
     IF SegmentOutOfBounds(variant, ph, FileSize)
       THEN /\ Fail("SegmentOutOfBounds", <<>>)
            /\ UNCHANGED <<fptr, bytesToRead, bytesLoaded>>
       ELSE /\ fptr' = Min(ph.offset, FileSize)
            /\ bytesToRead' = ph.filesz
            /\ bytesLoaded' = 0
            /\ pc' = "chunk"
            /\ log' = Append(log, Ev("seek", ph.offset, 0, 0, i + 1))
            /\ UNCHANGED <<err, ret, table, fileOpen>>
  /\ UNCHANGED <<handoffVars, variant, mode, call, elfHeader, programHeaders, i, buffer,
                 mem, dirty, fault>>

\* One iteration of the chunk loop with the read delivering x bytes
\* (x = -1: fr != FR_OK).
ChunkStep(x) ==
  LET ph        == programHeaders[i + 1]
      chunkSize == ChunkSizeOf(bytesToRead)
      rd        == Ev("read", fptr, chunkSize, x, i + 1)
      got       == IF x = -1 THEN 0 ELSE x
      newbuf    == [k \in 1..CHUNK_SIZE |->
                      IF k <= got THEN FileByte(fptr + k - 1) ELSE buffer[k]]
      dst       == ph.vaddr + bytesLoaded
      bytes     == CopyBytes(newbuf, got)
  IN
  /\ buffer' = newbuf
  /\ fptr' = fptr + got
  /\ IF ChunkReadFailed(x)
       THEN /\ Fail("ShortSegmentRead", <<rd>>)
            /\ UNCHANGED <<bytesToRead, bytesLoaded, mem, dirty>>
       ELSE /\ mem' = MemWrite(mem, dst, bytes)
            /\ bytesLoaded' = (bytesLoaded + got) % FieldMod(variant)
            /\ bytesToRead' = (bytesToRead - got) % FieldMod(variant)
            /\ dirty' = (dirty \cup Range(dst, Len(bytes)))
                          \ Range(FlushAddr(dst), got)
            /\ log' = log \o <<rd, Ev("write", dst, Len(bytes), 0, i + 1),
                               Ev("flush", FlushAddr(dst), got, 0, i + 1)>>
            /\ UNCHANGED <<pc, err, ret, table, fileOpen>>

\* while (bytesToRead > 0) { f_read; memcpy; Xil_DCacheFlushRange }
Chunk ==
  /\ pc = "chunk"
  /\ bytesToRead > 0
  /\ LET avail == Min(ChunkSizeOf(bytesToRead), FileSize - fptr) IN
     \/ \E x \in Deliveries(avail) :
          /\ ChunkStep(x)
          /\ fault' = (fault \/ (x = 0 /\ avail > 0))
     \/ /\ ChunkStep(-1)
        /\ fault' = TRUE
  /\ UNCHANGED <<handoffVars, variant, mode, call, elfHeader, programHeaders, i>>

\* After the chunk loop: clear uninitialized space, next entry.
SegFinish ==
  /\ pc = "chunk"
  /\ bytesToRead = 0
  /\ LET ph  == programHeaders[i + 1]
         n   == ZeroFillLen(ph)
         dst == ph.vaddr + bytesLoaded
     IN
     /\ mem' = MemWrite(mem, dst, [k \in 1..n |-> 0])
     /\ dirty' = dirty \cup Range(dst, n)
     /\ log' = IF n > 0 THEN Append(log, Ev("zero", dst, n, 0, i + 1)) ELSE log
  /\ i' = i + 1
  /\ pc' = "seg"
  /\ UNCHANGED <<handoffVars, variant, mode, call, fileOpen, fptr, elfHeader, table,
                 programHeaders, bytesToRead, bytesLoaded, buffer, err, ret,
                 fault>>

\* All segments loaded: free, f_close, then branch to (elf32) or return
\* (elf64) the entry point.
LoadDone ==
  /\ pc = "seg"
  /\ i >= elfHeader.phnum
  /\ Return("Success", <<>>, EntryPoint(elfHeader.entry),
            IF variant = "elf32" THEN "jumped" ELSE "main")
  /\ UNCHANGED <<handoffVars, variant, mode, call, fptr, elfHeader, programHeaders, i,
                 bytesToRead, bytesLoaded, buffer, mem, dirty, fault>>

(* ------------------------------ handoff -------------------------------- *)
\* 'X' 'L' 'N' 'X'
XLNX == <<88, 76, 78, 88>>

\* A register write, as a log entry: the register's name and the value.
RegWrite(r, v) == Ev(r, 0, v, 0, 0)

\* The descriptor mock_fsbl_SetATFHandoffParams leaves in its frame, built
\* over what the frame held before.
HandoffStruct(prior, EntryCount, PartitionHeader, PartitionFlags) ==
  [MagicValue |-> IF EntryCount = 0 THEN XLNX ELSE prior.MagicValue,
   NumEntries |-> (EntryCount + 1) % Mod32,
   Entry      |-> IF EntryCount < MAX_ENTRIES
                    THEN [prior.Entry EXCEPT ![EntryCount] =
                            [EntryPoint |-> PartitionHeader,
                             PartitionFlags |-> PartitionFlags]]
                    ELSE prior.Entry]

\* The frame of a call that is entered: the struct is not initialised, so
\* it holds whatever the stack held, the descriptor of an earlier call or
\* anything else.
FreshFrame == {NoDescriptor, ATFHandoffParams}

\* A read through a published address: the descriptor while its frame is
\* live, and after the frame is popped whatever the stack holds by then.
ReadThrough(live, d) == IF live THEN {d} ELSE {d, NoDescriptor}

MainStepAt_PublishAfterVectors(p) ==
  CASE p = "main" -> "reset_apu_cores(VALU)"
    [] p = "hold" -> "set_apu_rvba"
    [] p = "rvba" -> "mock_fsbl_SetATFHandoffParams"
    [] p = "release" -> "reset_apu_cores(CLER)"
    [] OTHER -> "while(1)"

MainStepAt_PublishAfterRelease(p) ==
  CASE p = "main" -> "reset_apu_cores(VALU)"
    [] p = "hold" -> "set_apu_rvba"
    [] p = "rvba" -> "reset_apu_cores(CLER)"
    [] p = "release" -> "mock_fsbl_SetATFHandoffParams"
    [] OTHER -> "while(1)"

\* main, after the two loads: the statement main is at, in program order.
MainStepAt(p) ==
  CASE p = "main" -> "mock_fsbl_SetATFHandoffParams"
    [] p = "hold" -> "reset_apu_cores(VALU)"
    [] p = "rvba" -> "set_apu_rvba"
    [] p = "release" -> "reset_apu_cores(CLER)"
    [] OTHER -> "while(1)"

\* The position after the statement at p.
MainAfter(p) ==
  CASE p = "main" -> "hold"
    [] p = "hold" -> "rvba"
    [] p = "rvba" -> "release"
    [] OTHER -> "released"

\* main has finished both loads and is at statement st.
MainAt(st) ==
  /\ mode = "boot"
  /\ pc \in {"main", "hold", "rvba", "release"}
  /\ call = Calls
  /\ MainStepAt(pc) = st

RvbaWrites_Core3HighMissed(entrypoint) ==
  [c \in 1..4 |-> RegWrite(RvbarLow[c], RVBARADDR_LOW_VALU)]
    \o [c \in 1..4 |-> RegWrite(RvbarHigh[IF c = 4 THEN 3 ELSE c], entrypoint)]

\* set_apu_rvba: the eight register writes, in order.
RvbaWrites(entrypoint) ==
  [c \in 1..4 |-> RegWrite(RvbarLow[c], RVBARADDR_LOW_VALU)]
    \o [c \in 1..4 |-> RegWrite(RvbarHigh[c], entrypoint)]

\* The registers after the writes ws, applied in order.
RECURSIVE ApplyWrites(_, _)
ApplyWrites(rs, ws) ==
  IF ws = <<>> THEN rs
  ELSE ApplyWrites([rs EXCEPT ![Head(ws).op] = Head(ws).n], Tail(ws))

\* mock_fsbl_SetATFHandoffParams(EntryCount, PartitionHeader, PartitionFlags)
\* entered on the frame fresh: the struct is filled in, its address is
\* published, and the function returns, which pops the frame.
HandoffCallBody(fresh, EntryCount, PartitionHeader, PartitionFlags) ==
  /\ ATFHandoffParams' =
       HandoffStruct(fresh, EntryCount, PartitionHeader, PartitionFlags)
  /\ regs' = [regs EXCEPT !["GLOBAL_GEN_STORAGE6"] = FrameAddr]
  /\ frameLive' = FALSE
  /\ handoffCall' = [EntryCount |-> EntryCount,
                     PartitionHeader |-> PartitionHeader,
                     PartitionFlags |-> PartitionFlags,
                     prior |-> ATFHandoffParams]
  /\ log' = log \o <<Ev("descriptor", FrameAddr, 0, 0, 0),
                     RegWrite("GLOBAL_GEN_STORAGE6", FrameAddr)>>

\* main: mock_fsbl_SetATFHandoffParams(0, bl31_entrypoint, 0);
SetATFHandoffParams ==
  /\ MainAt("mock_fsbl_SetATFHandoffParams")
  /\ \E fresh \in FreshFrame : HandoffCallBody(fresh, 0, bl31_entrypoint, 0)
  /\ pc' = MainAfter(pc)
  /\ UNCHANGED <<variant, mode, call, fileOpen, fptr, elfHeader, table,
                 programHeaders, i, bytesToRead, bytesLoaded, buffer, mem,
                 dirty, err, ret, fault, bl31_entrypoint, bl31_load,
                 secondaryRan, seen>>

\* main: reset_apu_cores((uint32_t)RST_FPD_APU_VALU);
ResetAssert ==
  /\ MainAt("reset_apu_cores(VALU)")
  /\ regs' = [regs EXCEPT !["RST_FPD_APU"] = RST_FPD_APU_VALU]
  /\ log' = Append(log, RegWrite("RST_FPD_APU", RST_FPD_APU_VALU))
  /\ pc' = MainAfter(pc)
  /\ UNCHANGED <<variant, mode, call, fileOpen, fptr, elfHeader, table,
                 programHeaders, i, bytesToRead, bytesLoaded, buffer, mem,
                 dirty, err, ret, fault, bl31_entrypoint, ATFHandoffParams,
                 frameLive, bl31_load, handoffCall, secondaryRan, seen>>

\* main: set_apu_rvba(bl31_entrypoint);
SetApuRvba ==
  /\ MainAt("set_apu_rvba")
  /\ regs' = ApplyWrites(regs, RvbaWrites(bl31_entrypoint))
  /\ log' = log \o RvbaWrites(bl31_entrypoint)
  /\ pc' = MainAfter(pc)
  /\ UNCHANGED <<variant, mode, call, fileOpen, fptr, elfHeader, table,
                 programHeaders, i, bytesToRead, bytesLoaded, buffer, mem,
                 dirty, err, ret, fault, bl31_entrypoint, ATFHandoffParams,
                 frameLive, bl31_load, handoffCall, secondaryRan, seen>>

\* main: reset_apu_cores((uint32_t)RST_FPD_APU_CLER); then while(1).
ResetClear ==
  /\ MainAt("reset_apu_cores(CLER)")
  /\ regs' = [regs EXCEPT !["RST_FPD_APU"] = RST_FPD_APU_CLER]
  /\ log' = Append(log, RegWrite("RST_FPD_APU", RST_FPD_APU_CLER))
  /\ pc' = MainAfter(pc)
  /\ UNCHANGED <<variant, mode, call, fileOpen, fptr, elfHeader, table,
                 programHeaders, i, bytesToRead, bytesLoaded, buffer, mem,
                 dirty, err, ret, fault, bl31_entrypoint, ATFHandoffParams,
                 frameLive, bl31_load, handoffCall, secondaryRan, seen>>

\* main has written RST_FPD_APU_CLER after RST_FPD_APU_VALU: the cores run.
CoresReleased ==
  \E j, k \in 1..Len(log) :
    /\ j < k
    /\ log[j] = RegWrite("RST_FPD_APU", RST_FPD_APU_VALU)
    /\ log[k] = RegWrite("RST_FPD_APU", RST_FPD_APU_CLER)

\* A core out of reset starts at its reset vector and, as the image the
\* handoff is for does, fetches the descriptor through GLOBAL_GEN_STORAGE6.
\* It runs beside main, whenever it is scheduled after the release.
SecondaryStart ==
  /\ CoresReleased
  /\ ~secondaryRan
  /\ secondaryRan' = TRUE
  /\ seen' \in IF regs["GLOBAL_GEN_STORAGE6"] = FrameAddr
                 THEN ReadThrough(frameLive, ATFHandoffParams)
                 ELSE {NoDescriptor}
  /\ UNCHANGED <<variant, mode, pc, call, fileOpen, fptr, elfHeader, table,
                 programHeaders, i, bytesToRead, bytesLoaded, buffer, mem,
                 dirty, err, ret, fault, log, bl31_entrypoint, regs,
                 ATFHandoffParams, frameLive, bl31_load, handoffCall>>

Next ==
  \/ MainCall
  \/ Mount
  \/ Open
  \/ ReadHeader
  \/ CheckMagic
  \/ CheckPhoff
  \/ AllocTable
  \/ ReadTable
  \/ SegBegin
  \/ Chunk
  \/ SegFinish
  \/ LoadDone
  \/ SetATFHandoffParams
  \/ ResetAssert
  \/ SetApuRvba
  \/ ResetClear
  \/ SecondaryStart

Spec == Init /\ [][Next]_vars

(* ------------------- the handoff function on its own ------------------- *)
\* How many calls of mock_fsbl_SetATFHandoffParams a caller makes.
MaxHandoffCalls == 2

\* The arguments a caller passes.
EntryCounts == {0, 1, MAX_ENTRIES - 1, MAX_ENTRIES, Mod32 - 1}
PartitionHeaders == {9, Mod32 - 1}
PartitionFlagsOf == {0, 1}

InitHandoff ==
  /\ InitCommon
  /\ variant = "elf64"
  /\ mode = "handoff"

\* mock_fsbl_SetATFHandoffParams(EntryCount, PartitionHeader, PartitionFlags)
\* called with any arguments, once or again.
HandoffCall ==
  /\ mode = "handoff"
  /\ call < MaxHandoffCalls
  /\ call' = call + 1
  /\ \E EntryCount \in EntryCounts, PartitionHeader \in PartitionHeaders,
        PartitionFlags \in PartitionFlagsOf, fresh \in FreshFrame :
       HandoffCallBody(fresh, EntryCount, PartitionHeader, PartitionFlags)
  /\ UNCHANGED <<variant, mode, pc, fileOpen, fptr, elfHeader, table,
                 programHeaders, i, bytesToRead, bytesLoaded, buffer, mem,
                 dirty, err, ret, fault, bl31_entrypoint, bl31_load,
                 secondaryRan, seen>>

NextHandoff == HandoffCall

SpecHandoff == InitHandoff /\ [][NextHandoff]_vars

(* --------------------------- the program runs -------------------------- *)
\* One core runs the program and nothing preempts it: whenever a statement
\* can be executed, one is.  The storage calls are synchronous and return.
SpecLive == Init /\ [][Next]_vars /\ WF_vars(Next)

(* ----------------------- vocabulary of the claims ---------------------- *)
\* The current call has read a header from the card.
HeaderRead == elfHeader # NoHeader

\* The declared table lies inside the file.
TableInsideFile ==
  /\ elfHeader.phoff < FileSize
  /\ elfHeader.phoff + TableBytes(variant, elfHeader.phnum) <= FileSize

\* Positions of the log entries with the given operations.
LogOps(ops) == {k \in 1..Len(log) : log[k].op \in ops}

\* Positions of the log entries made for entry s of the table.
SegOps(s, ops) == {k \in LogOps(ops) : log[k].seg = s}

\* Destination addresses entry s has been copied to so far.
Copied(s) == UNION {Range(log[k].a, log[k].n) : k \in SegOps(s, {"write"})}

\* Entry s lies inside the file, the sum taken as an integer.
InFile(ph) == ph.offset + ph.filesz <= FileSize

\* The addresses an entry may be written to.
Extent(ph) == Range(ph.vaddr, Max(ph.filesz, ph.memsz))

\* The loop has finished entry s.
SegDone(s) == s <= i \/ (s = i + 1 /\ pc = "chunk" /\ bytesToRead = 0)

\* Entry s is in memory as the file describes it.
Placed(ph) ==
  /\ \A k \in 0..(ph.filesz - 1) : MemAt(ph.vaddr + k) = FileByte(ph.offset + k)
  /\ \A k \in ph.filesz..(ph.memsz - 1) : MemAt(ph.vaddr + k) = 0

(* -------------------------------- C1 ----------------------------------- *)
\* C1 as stated: a call that has ended without an environment failure, on an
\* image with a valid magic and its table inside the file, has succeeded, and
\* every LOAD segment is placed: file bytes, then zeros up to memsz.
C1_AsStated ==
  (err # "none" /\ ~fault /\ HeaderRead /\ elfHeader.ident = ELFMAG
     /\ TableInsideFile)
  => /\ err = "Success"
     /\ \A s \in DOMAIN programHeaders :
          programHeaders[s].type = PT_LOAD => Placed(programHeaders[s])

\* Every entry of the table lies inside the file and no two entries share a
\* destination address.
WellFormedTable ==
  /\ \A s \in DOMAIN programHeaders : InFile(programHeaders[s])
  /\ \A s, t \in DOMAIN programHeaders :
       s # t => Extent(programHeaders[s]) \cap Extent(programHeaders[t]) = {}

\* C1 amended: as C1, for the images in which every program-header entry
\* (of any type) has offset + filesz <= file size and the entries'
\* destination ranges are pairwise disjoint, when mount, open, malloc and
\* every read succeed.
C1_Amended ==
  (err # "none" /\ ~fault /\ HeaderRead /\ elfHeader.ident = ELFMAG
     /\ TableInsideFile /\ WellFormedTable)
  => /\ err = "Success"
     /\ \A s \in DOMAIN programHeaders :
          programHeaders[s].type = PT_LOAD => Placed(programHeaders[s])

\* Two LOAD segments with filesz < memsz loaded over pre-filled memory,
\* the memory past each still as it was.
C1_Witness ==
  /\ err = "Success" /\ ~fault /\ WellFormedTable
  /\ Len(programHeaders) = 2
  /\ \A s \in 1..2 :
       /\ programHeaders[s].type = PT_LOAD
       /\ programHeaders[s].filesz = CHUNK_SIZE + 1
       /\ programHeaders[s].memsz = CHUNK_SIZE + 3
       /\ MemAt(programHeaders[s].vaddr + CHUNK_SIZE + 3) = PreFill

(* -------------------------------- C2 ----------------------------------- *)
\* C2: a LOAD segment whose offset + filesz (the integer sum) exceeds the
\* file size makes the load fail with SegmentOutOfBounds when the loop
\* reaches it, and nothing is read or written for it.
C2_OutOfBoundsRejected ==
  \A s \in DOMAIN programHeaders :
    (programHeaders[s].type = PT_LOAD /\ ~InFile(programHeaders[s]))
    => /\ SegOps(s, {"read", "write"}) = {}
       /\ ~(i + 1 = s /\ pc = "chunk")
       /\ (i + 1 = s /\ err # "none") => err = "SegmentOutOfBounds"

(* -------------------------------- C3 ----------------------------------- *)
\* C3: an entry whose type is not LOAD is skipped: no seek, read, write or
\* zero-fill is made for it and the load does not end at it.
C3_NonLoadSkipped ==
  \A s \in DOMAIN programHeaders :
    programHeaders[s].type # PT_LOAD
    => /\ SegOps(s, {"seek", "read", "write", "zero"}) = {}
       /\ ~(i + 1 = s /\ err \in {"SegmentOutOfBounds", "ShortSegmentRead"})

(* -------------------------------- C4 ----------------------------------- *)
\* C4: once the identification test has run on a header with any of the four
\* bytes altered, the call has failed with BadMagic, has written no memory
\* (no copy, no zero-fill) and has not read the program-header table.
C4_BadMagicNoWrites ==
  (HeaderRead /\ pc # "magic" /\ elfHeader.ident # ELFMAG)
  => /\ err = "BadMagic"
     /\ LogOps({"write", "zero", "read_tab", "read"}) = {}
     /\ call = 1 => mem = <<>>

\* The last identification byte alone is altered and the call was refused.
C4_Witness ==
  /\ err = "BadMagic"
  /\ elfHeader.ident = [ELFMAG EXCEPT ![4] = 0]

(* -------------------------------- C5 ----------------------------------- *)
\* C5: once the header tests have run on a header whose e_phoff >= file
\* size, the call has failed, with InvalidProgramHeaderOffset if the magic
\* was valid, and no allocation, seek or table read has been made.
C5_PhoffRejectedFirst ==
  (HeaderRead /\ pc \notin {"magic", "phoff"} /\ elfHeader.phoff >= FileSize)
  => /\ err = IF elfHeader.ident = ELFMAG
                THEN "InvalidProgramHeaderOffset" ELSE "BadMagic"
     /\ LogOps({"alloc", "seek", "read_tab"}) = {}
     /\ table = "none"

\* The table is declared to start exactly at the end of the file.
C5_Witness ==
  /\ err = "InvalidProgramHeaderOffset"
  /\ elfHeader.phoff = FileSize

(* -------------------------------- C6 ----------------------------------- *)
\* Bytes of entry s still to read when the read logged at k was issued.
Remaining(k) ==
  LET ph == programHeaders[log[k].seg] IN
  ph.filesz - (log[k].a - Min(ph.offset, FileSize))

\* The read at k came back empty, or short on a chunk that is not the last.
ShortRead(k) ==
  \/ log[k].x <= 0
  \/ log[k].x < log[k].n /\ Remaining(k) > CHUNK_SIZE

\* C6 as stated: after a chunk read that returns zero bytes, or fewer than
\* requested on a non-final chunk, the load has failed with ShortSegmentRead
\* and nothing more is copied.
C6_AsStated ==
  \A k \in LogOps({"read"}) :
    ShortRead(k)
    => /\ err = "ShortSegmentRead"
       /\ \A j \in LogOps({"read", "write", "zero"}) : j <= k

\* C6 amended: a chunk read that fails or returns zero bytes aborts the load
\* with ShortSegmentRead and nothing more is read or copied; a read that
\* returns at least one byte, even fewer than requested, is copied and the
\* loop goes on.
C6_Amended ==
  \A k \in LogOps({"read"}) :
    IF log[k].x <= 0
      THEN /\ err = "ShortSegmentRead"
           /\ \A j \in LogOps({"read", "write", "flush", "zero", "seek"}) : j <= k
      ELSE /\ k + 1 \in LogOps({"write"})
           /\ log[k + 1].n = log[k].x

\* A chunk read returned nothing although bytes were requested and the load
\* was abandoned.
C6_Witness ==
  /\ err = "ShortSegmentRead"
  /\ \E k \in LogOps({"read"}) : log[k].x = 0 /\ log[k].n > 0
  /\ \E k \in LogOps({"read"}) : log[k].x > 0 /\ log[k].x < log[k].n

(* -------------------------------- C7 ----------------------------------- *)
\* C7: every chunk requests min(CHUNK_SIZE, bytes remaining); every copy
\* writes exactly the bytes the read before it returned, at the next
\* destination address; and when the chunk loop of an entry is over the
\* addresses copied to are exactly [vaddr, vaddr + filesz).
C7_ChunkedCopyExact ==
  /\ \A k \in LogOps({"read"}) :
       log[k].n = Min(CHUNK_SIZE, Remaining(k))
  /\ \A k \in LogOps({"write"}) :
       LET ph == programHeaders[log[k].seg] IN
       /\ k - 1 \in LogOps({"read"})
       /\ log[k].n = log[k - 1].x
       /\ log[k].a = ph.vaddr + (log[k - 1].a - Min(ph.offset, FileSize))
       /\ Range(log[k].a, log[k].n) \subseteq Range(ph.vaddr, ph.filesz)
  /\ (pc = "chunk" /\ Len(log) >= 3 /\ log[Len(log)].op = "flush")
     => LET w == log[Len(log) - 1]
            r == log[Len(log) - 2]
        IN \A d \in 0..(w.n - 1) : MemAt(w.a + d) = FileByte(r.a + d)
  /\ \A s \in DOMAIN programHeaders :
       SegDone(s) => Copied(s) = Range(programHeaders[s].vaddr, programHeaders[s].filesz)

\* A segment of CHUNK_SIZE + 1 bytes copied as one full chunk and a final
\* chunk of one byte.
C7_Witness ==
  /\ pc = "chunk" /\ bytesToRead = 0
  /\ programHeaders[i + 1].filesz = CHUNK_SIZE + 1
  /\ Cardinality(SegOps(i + 1, {"write"})) = 2
  /\ log[Len(log) - 1].op = "write" /\ log[Len(log) - 1].n = 1

(* -------------------------------- C8 ----------------------------------- *)
\* C8: every copy is followed at once by a flush of the same address and
\* the same length.
C8_FlushExactlyWritten ==
  \A k \in LogOps({"write"}) :
    /\ k + 1 \in LogOps({"flush"})
    /\ log[k + 1].a = log[k].a
    /\ log[k + 1].n = log[k].n

(* -------------------------------- C9 ----------------------------------- *)
\* Control has left the boot core's hands: load_elf32 has branched to the
\* entry point, or the APU main has released the cores from reset.
ControlTransferred == pc \in {"jumped", "released"}

\* C9: when control is transferred, every address the loader wrote,
\* zero-filled tails included, has been flushed since it was last written.
C9_AllWritesFlushed == ControlTransferred => dirty = {}

(* -------------------------------- C10 ---------------------------------- *)
\* The program is inside load_elf32 / load_elf64.
InCall ==
  pc \in {"mount", "open", "hdr", "magic", "phoff", "alloc", "table", "seg",
          "chunk"}

\* How many of the calls logged since the loader was entered succeeded.
Succeeded(op) == Cardinality({k \in LogOps({op}) : log[k].x >= 0})

\* C10: no exit of the loader leaves the file open or the table allocated:
\* outside the loader the file is closed, closed once if it was opened and
\* not at all otherwise, and the table is freed, once if it was allocated
\* and not at all otherwise; inside, the table is live wherever the loop
\* reads it; and a repeated call starts with no file open and no table.
C10_CleanupOnEveryExit ==
  /\ table # "corrupt"
  /\ pc \in {"seg", "chunk"} => table = "live"
  /\ ~InCall =>
       /\ ~fileOpen
       /\ table # "live"
       /\ Succeeded("close") = Succeeded("open")
       /\ Succeeded("free") = Succeeded("alloc")
  /\ pc \in {"mount", "open"} => (~fileOpen /\ table = "none")

\* The second image of the boot failed in the middle of a segment, after
\* the first had been loaded, and nothing is left open or allocated.
C10_Witness ==
  /\ call = 2 /\ pc = "main"
  /\ err = "ShortSegmentRead"
  /\ LogOps({"write"}) # {}
  /\ ~fileOpen /\ table = "freed"

(* -------------------------------- C11 ---------------------------------- *)
\* main has begun the handoff: the descriptor or a handoff register has been
\* written.
HandoffBegun == LogOps({"descriptor"} \cup Registers) # {}

\* C11: each stage is a hard gate.  A call that has failed has left the
\* loader with the failure value and not with an entry point, having written
\* nothing after the failing stage; and main performs the handoff
\* (descriptor publication, reset-vector programming, reset release) only
\* with the result of a load of bl31.elf that succeeded.
C11_HardGate ==
  /\ err \notin {"none", "Success"} =>
       /\ ~InCall
       /\ ret = FailValue(variant)
       /\ \A k \in LogOps({"write", "zero"}) :
            \A j \in LogOps({"read_hdr", "read_tab", "read", "alloc"}) :
              log[j].x = -1 => k < j
  /\ HandoffBegun => bl31_load.err = "Success"

(* -------------------------------- C12 ---------------------------------- *)
\* The header declares a table that runs past the end of the file.
TableTruncated ==
  /\ HeaderRead
  /\ elfHeader.ident = ELFMAG
  /\ elfHeader.phoff < FileSize
  /\ elfHeader.phoff + TableBytes(variant, elfHeader.phnum) > FileSize

\* C12: when the declared table (entry count times entry size, at the table
\* offset) is not fully inside the file, the one read of the table returns
\* fewer bytes than requested and the call fails with TruncatedTable (or, if
\* malloc or the read itself failed, with that failure): no entry is
\* processed and no destination memory is written.
C12_TruncatedTableRejected ==
  TableTruncated =>
    /\ \A k \in LogOps({"read_tab"}) : log[k].x < log[k].n
    /\ pc \notin {"seg", "chunk"}
    /\ programHeaders = <<>>
    /\ LogOps({"read", "write", "flush", "zero"}) = {}
    /\ call = 1 => mem = <<>>
    /\ ~InCall =>
         /\ ret = FailValue(variant)
         /\ ~fault => err = "TruncatedTable"

\* A two-entry table of which only the first entry is in the file: the read
\* came back short and the call failed with TruncatedTable.
C12_Witness ==
  /\ TableTruncated
  /\ elfHeader.phnum = 2
  /\ elfHeader.phoff = FileSize - PhdrSize(variant)
  /\ \E k \in LogOps({"read_tab"}) : log[k].x = PhdrSize(variant)
  /\ err = "TruncatedTable"
  /\ ~fault

(* -------------------------------- C13 ---------------------------------- *)
\* The reset-vector registers.
RvbarRegs == {RvbarLow[c] : c \in 1..4} \cup {RvbarHigh[c] : c \in 1..4}

\* The last write to one of the registers rs before position k of the log,
\* 0 if there is none.
LastWrite(rs, k) ==
  LET before == {j \in LogOps(rs) : j < k} IN
  IF before = {} THEN 0 ELSE CHOOSE j \in before : \A h \in before : h <= j

\* The last write to register r before position k stored v.
Holds(r, v, k) == LastWrite({r}, k) # 0 /\ log[LastWrite({r}, k)].n = v

\* C13: the handoff goes CoresHeld -> VectorsProgrammed -> CoresReleased.
\* Every reset-vector write is made while the cores are held in reset (the
\* last write to RST_FPD_APU before it is RST_FPD_APU_VALU), and at the
\* reset-clear write every core 0..3 has its low half at RVBARADDR_LOW_VALU
\* and its high half at the entry point the load of bl31.elf returned to
\* main, which for a load that succeeded is the header's e_entry as
\* load_elf64 returns it.
C13_HoldProgramRelease ==
  /\ \A k \in LogOps(RvbarRegs) :
       Holds("RST_FPD_APU", RST_FPD_APU_VALU, k)
  /\ \A k \in LogOps({"RST_FPD_APU"}) :
       log[k].n = RST_FPD_APU_CLER =>
         /\ Holds("RST_FPD_APU", RST_FPD_APU_VALU, k)
         /\ \A c \in 1..4 :
              /\ Holds(RvbarLow[c], RVBARADDR_LOW_VALU, k)
              /\ Holds(RvbarHigh[c], bl31_load.ret % Mod32, k)
              /\ bl31_load.err = "Success" =>
                   Holds(RvbarHigh[c], EntryPoint(bl31_load.entry), k)
  /\ CoresReleased =>
       \A c \in 1..4 : /\ regs[RvbarLow[c]] = RVBARADDR_LOW_VALU
                       /\ regs[RvbarHigh[c]] = bl31_load.ret % Mod32

\* bl31.elf was loaded, its entry point is in the four high halves, and the
\* cores have been released.
C13_Witness ==
  /\ CoresReleased
  /\ bl31_load.err = "Success"
  /\ \A c \in 1..4 : regs[RvbarHigh[c]] = EntryPoint(bl31_load.entry)
  /\ regs["RST_FPD_APU"] = RST_FPD_APU_CLER

(* -------------------------------- C14 ---------------------------------- *)
\* The primary core's writes to the descriptor and to GLOBAL_GEN_STORAGE6.
PublishOps == {"descriptor", "GLOBAL_GEN_STORAGE6"}

\* The reset-clear writes in the log.
ClearWrites ==
  {k \in LogOps({"RST_FPD_APU"}) : log[k].n = RST_FPD_APU_CLER}

\* C14: whenever a released core runs, the primary core's writes to the
\* descriptor and to GLOBAL_GEN_STORAGE6 are complete: both have been made
\* before the reset-clear write, and the primary core makes none after it,
\* so the released core finds the descriptor's address in the register
\* whenever it is scheduled.
C14_PublishedBeforeRelease ==
  /\ \A k \in ClearWrites :
       /\ \E j \in LogOps({"descriptor"}) : j < k
       /\ \E j \in LogOps({"GLOBAL_GEN_STORAGE6"}) : j < k
       /\ \A j \in LogOps(PublishOps) : j < k
  /\ ClearWrites # {} =>
       /\ regs["GLOBAL_GEN_STORAGE6"] = FrameAddr
       /\ ATFHandoffParams = HandoffStruct(handoffCall.prior, 0, bl31_entrypoint, 0)
  /\ secondaryRan =>
       /\ CoresReleased
       /\ LogOps(PublishOps) # {}
       /\ pc = "released"

\* A released core has run beside main, after the descriptor was written
\* and its address published.
C14_Witness ==
  /\ secondaryRan
  /\ pc = "released"
  /\ \E j \in LogOps({"GLOBAL_GEN_STORAGE6"}) : \E k \in ClearWrites : j < k

(* -------------------------------- C15 ---------------------------------- *)
\* Every logged write with an operation of as comes before every one of bs.
AllBefore(as, bs) ==
  \A j \in LogOps(as) : \A k \in LogOps(bs) : j < k

\* The reset-assert writes in the log.
AssertWrites ==
  {k \in LogOps({"RST_FPD_APU"}) : log[k].n = RST_FPD_APU_VALU}

\* The steps of the handoff that are in the log come in main's order for
\* the three that both orders share: reset assert, vectors, reset clear.
HoldVectorsRelease ==
  /\ \A j \in AssertWrites : \A k \in LogOps(RvbarRegs) : j < k
  /\ \A j \in LogOps(RvbarRegs) : \A k \in ClearWrites : j < k
  /\ ClearWrites # {} => (AssertWrites # {} /\ LogOps(RvbarRegs) # {})
  /\ LogOps(RvbarRegs) # {} => AssertWrites # {}

C16_DescriptorOutlivesCall ==
  CoresReleased =>
    /\ regs["GLOBAL_GEN_STORAGE6"] = FrameAddr
    /\ frameLive
    /\ secondaryRan => seen = ATFHandoffParams

(* -------------------------------- C17 ---------------------------------- *)
\* The descriptor d is the one a call with no prior entries is to produce
\* for the last handoff call's arguments.
FirstEntryDescriptor(d) ==
  /\ d.MagicValue = XLNX
  /\ d.NumEntries = 1
  /\ d.Entry[0].EntryPoint = handoffCall.PartitionHeader
  /\ d.Entry[0].PartitionFlags = handoffCall.PartitionFlags

\* C17: after a handoff call with EntryCount = 0 the published descriptor,
\* the one read through the address in GLOBAL_GEN_STORAGE6, has the magic
\* 'XLNX', NumEntries = 1, entry 0's address equal to the entry point main
\* resolved and passed, and entry 0's flags equal to the flags passed.
C17_ZeroPriorEntries ==
  handoffCall.EntryCount = 0 =>
    /\ regs["GLOBAL_GEN_STORAGE6"] = FrameAddr
    /\ handoffCall.PartitionHeader = bl31_entrypoint
    /\ \A d \in ReadThrough(frameLive, ATFHandoffParams) :
         FirstEntryDescriptor(d)

(* -------------------------------- C18 ---------------------------------- *)
\* The descriptor published before the last call records n entries.
PriorEntries(n) ==
  /\ handoffCall.prior.MagicValue = XLNX
  /\ handoffCall.prior.NumEntries = n

\* C18: a handoff call with n prior entries, 0 < n < MAX_ENTRIES, appends
\* to the existing descriptor: the descriptor it publishes keeps the magic
\* and the n pairs recorded before and has the new pair at index n; with
\* n >= MAX_ENTRIES the new entry is dropped and the entries are unchanged.
C18_AppendsToChain ==
  LET n == handoffCall.EntryCount IN
  /\ (0 < n /\ n < MAX_ENTRIES /\ PriorEntries(n)) =>
       /\ ATFHandoffParams.MagicValue = XLNX
       /\ \A k \in 0..(n - 1) :
            ATFHandoffParams.Entry[k] = handoffCall.prior.Entry[k]
       /\ ATFHandoffParams.Entry[n] =
            [EntryPoint |-> handoffCall.PartitionHeader,
             PartitionFlags |-> handoffCall.PartitionFlags]
  /\ n >= MAX_ENTRIES =>
       ATFHandoffParams.Entry = handoffCall.prior.Entry

(* -------------------------------- C19 ---------------------------------- *)
\* The entries of d that a call has written.
ValidEntries(d) ==
  {k \in DOMAIN d.Entry : d.Entry[k].EntryPoint # Uninit}

\* C19: for every EntryCount passed, the published descriptor's NumEntries
\* does not exceed MAX_ENTRIES and is the number of valid entries, and no
\* entry outside Entry[0..MAX_ENTRIES-1] is written.
C19_NumEntriesWithinCapacity ==
  handoffCall.EntryCount # Uninit =>
    /\ ATFHandoffParams.NumEntries <= MAX_ENTRIES
    /\ ATFHandoffParams.NumEntries =
         Cardinality(ValidEntries(ATFHandoffParams))
    /\ DOMAIN ATFHandoffParams.Entry = 0..(MAX_ENTRIES - 1)

(* -------------------------------- C20 ---------------------------------- *)
\* C20: every byte written for an entry, copied or zero-filled, lies inside
\* [vaddr, vaddr + memsz); in particular an entry with filesz > memsz never
\* has bytes copied past vaddr + memsz.
C20_WritesInsideDestination ==
  \A s \in DOMAIN programHeaders :
    \A k \in SegOps(s, {"write", "zero"}) :
      Range(log[k].a, log[k].n) \subseteq
        Range(programHeaders[s].vaddr, programHeaders[s].memsz)

(* -------------------------------- C21 ---------------------------------- *)
\* C21: the entry point the loader resolves is the header's e_entry, for
\* every value of the field.  A call that succeeded has returned (load_elf32:
\* branched to) exactly e_entry, which is not the value returned on failure;
\* and after a successful load of bl31.elf main holds exactly its e_entry
\* and programs exactly that into the reset vectors and the descriptor.
C21_EntryPointExact ==
  /\ err = "Success" =>
       /\ ret = elfHeader.entry
       /\ ret # FailValue(variant)
  /\ (bl31_load.err = "Success" /\ call = Calls /\ mode = "boot") =>
       /\ bl31_load.ret = bl31_load.entry
       /\ bl31_entrypoint = bl31_load.entry
       /\ handoffCall.EntryCount = 0 =>
            ATFHandoffParams.Entry[0].EntryPoint = bl31_load.entry
       /\ CoresReleased =>
            \A c \in 1..4 : regs[RvbarHigh[c]] = bl31_load.entry

(* -------------------------------- C22 ---------------------------------- *)
\* The chunk loop of the current entry is running.
LoopRunning == pc = "chunk" /\ bytesToRead > 0

\* The chunk loop of the current entry has ended: everything is loaded, or
\* the call has returned the failure value from inside the loop.
LoopEnded ==
  \/ /\ pc = "chunk" /\ bytesToRead = 0
     /\ bytesLoaded = programHeaders[i + 1].filesz
  \/ /\ ~InCall /\ err = "ShortSegmentRead" /\ ret = FailValue(variant)

\* In the loop bytesLoaded + bytesToRead is filesz, neither counter has
\* wrapped, and every read of the loop asked for no more than was left and
\* was given no more than it asked for.
ChunkLoopInvariant ==
  pc = "chunk" =>
    LET ph == programHeaders[i + 1] IN
    /\ bytesLoaded + bytesToRead = ph.filesz
    /\ bytesToRead \in 0..ph.filesz
    /\ bytesLoaded \in 0..ph.filesz
    /\ \A k \in SegOps(i + 1, {"read"}) :
         /\ log[k].x <= log[k].n
         /\ log[k].n <= ph.filesz

\* An iteration of the loop leaves less to read or leaves the loader.
ChunkLoopProgress ==
  LoopRunning =>
    \/ pc' = "chunk" /\ bytesToRead' < bytesToRead /\ bytesToRead' >= 0
    \/ pc' # "chunk" /\ err' = "ShortSegmentRead"

\* C22: the chunk loop keeps bytesLoaded + bytesToRead = filesz with
\* bytesRead <= bytesToRead, so bytesToRead never underflows; every
\* iteration makes progress; and whatever the reads deliver, between 0 bytes
\* and the bytes requested, a running loop ends, with bytesLoaded = filesz
\* or with a failure return.
C22_ChunkLoopTerminates ==
  /\ []ChunkLoopInvariant
  /\ [][ChunkLoopProgress]_vars
  /\ (LoopRunning ~> LoopEnded)

\* A segment of CHUNK_SIZE + 1 bytes loaded in three reads, one byte short
\* on the first: the loop has ended with everything loaded.
C22_Witness ==
  /\ pc = "chunk" /\ bytesToRead = 0
  /\ programHeaders[i + 1].filesz = CHUNK_SIZE + 1
  /\ bytesLoaded = CHUNK_SIZE + 1
  /\ \E k \in SegOps(i + 1, {"read"}) : log[k].x < log[k].n /\ log[k].x > 0
  /\ Cardinality(SegOps(i + 1, {"read"})) = 3

=============================================================================
